---------------------------- MODULE Spec2Model ----------------------------
(***************************************************************************)
(* Chunked source compressor of js/src/vm/Compression.cpp: the Compressor  *)
(* state machine (init, setOutput, compressMore for the zlib and the zstd  *)
(* backend, totalBytesNeeded, finish) and the chunk decoder.               *)
(*                                                                         *)
(* Memory is a sequence of bytes; the byte at offset k is element k+1.     *)
(* The compressed stream is abstract: one symbol of the stream is one      *)
(* byte of output.                                                         *)
(***************************************************************************)
EXTENDS Integers, Sequences, FiniteSets, TLC

(***************************************************************************)
(* Bounds.  CHUNK_SIZE and MAX_INPUT_SIZE are the class constants of       *)
(* Compressor (64 KiB and 2 KiB), scaled down; MaxLen bounds the input     *)
(* length, MaxInit the payload room of the first output buffer, MaxGrow    *)
(* the small growth steps of the caller.                                   *)
(***************************************************************************)
CHUNK_SIZE == 3
MAX_INPUT_SIZE == 2
MaxLen == 7
MaxInit == 2
MaxGrow == 3

Min(a, b) == IF a < b THEN a ELSE b

\* sizeof(CompressedDataHeader): compressedBytes, algorithm, level, reserved.
sizeofHeader == 4 + 1 + 1 + 2

\* sizeof(uint32_t)
sizeofU32 == 2 + 2

\* js::AlignBytes
AlignBytes(bytes, alignment) == bytes + ((alignment - (bytes % alignment)) % alignment)

\* Room that holds every container the bounded inputs can produce.
OutCap == sizeofHeader + 3 * MaxLen + 4

Algorithms == {"ZLIB", "ZSTD"}
Levels == {0, 6}

\* Content of freshly allocated memory at offset k.
Poison(k) == 160 + (k % 4)

\* The input blobs: every byte differs from its neighbours.
Blob(len, seed) == [i \in 1..len |-> (seed + 7 * i) % 256]

\* mem with bytes written at offset off (writes past the end are dropped).
WriteAt(mem, off, bytes) ==
  [i \in 1..Len(mem) |->
     IF i > off /\ i <= off + Len(bytes) THEN bytes[i - off] ELSE mem[i]]

\* A buffer of newlen bytes that preserves the first keep bytes of mem.
Realloc(mem, keep, newlen) ==
  [i \in 1..newlen |-> IF i <= keep /\ i <= Len(mem) THEN mem[i] ELSE Poison(i - 1)]

(***************************************************************************)
(* Compressor::chunkSize and Compressor::sizeOfChunkOffsets.               *)
(***************************************************************************)
NumChunks(inplen) == (inplen - 1) \div CHUNK_SIZE + 1

chunkSize(uncompressedBytes, chunk) ==
  IF chunk = NumChunks(uncompressedBytes) - 1
    THEN ((uncompressedBytes - 1) % CHUNK_SIZE) + 1
    ELSE CHUNK_SIZE

sizeOfChunkOffsets(c) == Len(c.chunkOffsets) * sizeofU32

(***************************************************************************)
(* The raw-deflate backend (zlib's deflate as Compressor drives it).       *)
(* z_stream: next_in and next_out are offsets into the input and into the  *)
(* bound output buffer (next_out = -1 is the null pointer); pending,       *)
(* lookahead, last_flush and status are zlib's internal deflate state;     *)
(* fed is the sequence of bytes zlib has read so far.                      *)
(***************************************************************************)
Literal(b) == 1000 + b

\* The empty stored block a sync/full flush ends with.
StoredEmpty == <<16, 17>>

\* The end of the final deflate block.
FinalBlock == <<18>>

\* zlib's RANK(flush).
Rank(flush) ==
  CASE flush = "init"         -> -4
    [] flush = "none"         -> -2
    [] flush = "Z_NO_FLUSH"   -> 0
    [] flush = "Z_FULL_FLUSH" -> 6
    [] flush = "Z_FINISH"     -> 8

\* Copies as much pending output as the output span takes.
flush_pending(zs, out) ==
  LET n == Min(Len(zs.pending), zs.avail_out) IN
  [zs  |-> [zs EXCEPT !.pending = SubSeq(@, n + 1, Len(@)),
                      !.next_out = @ + n,
                      !.avail_out = @ - n],
   out |-> WriteAt(out, zs.next_out, SubSeq(zs.pending, 1, n))]

\* zlib reads k more input bytes into its window.
read_buf(zs, inp, k) ==
  [zs EXCEPT !.fed = @ \o SubSeq(inp, zs.next_in + 1, zs.next_in + k),
             !.next_in = @ + k,
             !.avail_in = @ - k,
             !.lookahead = @ + k]

(***************************************************************************)
(* The block loop: every input byte becomes one literal, emitted at once;  *)
(* the loop stops with need_more as soon as the output span is full, and   *)
(* zlib may by then have read up to `ahead` further input bytes into its   *)
(* window.  At the end of the input a Z_FINISH ends the final block.       *)
(***************************************************************************)
\* The oldest byte of the window becomes a literal of the pending output.
emit_literal(zs, inp) ==
  [zs EXCEPT !.lookahead = @ - 1,
             !.pending = @ \o <<Literal(inp[zs.next_in - zs.lookahead + 1])>>]

\* The end of the input under Z_FINISH, given f, the final block flushed.
finish_block(f) ==
  [zs |-> f.zs, out |-> f.out,
   bstate |-> IF f.zs.avail_out = 0 THEN "finish_started" ELSE "finish_done"]

RECURSIVE deflate_fast(_, _, _, _, _)
\* The loop after one literal, given f, that literal flushed.
deflate_next(f, inp, flush, ahead) ==
  IF f.zs.avail_out = 0
    THEN [zs |-> read_buf(f.zs, inp, Min(ahead, f.zs.avail_in)),
          out |-> f.out, bstate |-> "need_more"]
    ELSE deflate_fast(f.zs, f.out, inp, flush, ahead)

deflate_fast(zs, out, inp, flush, ahead) ==
  IF zs.lookahead = 0 /\ zs.avail_in = 0
    THEN IF flush = "Z_NO_FLUSH"
           THEN [zs |-> zs, out |-> out, bstate |-> "need_more"]
         ELSE IF flush = "Z_FINISH"
           THEN finish_block(flush_pending([zs EXCEPT !.pending = @ \o FinalBlock], out))
         ELSE [zs |-> zs, out |-> out, bstate |-> "block_done"]
    ELSE deflate_next(
           flush_pending(
             emit_literal(IF zs.lookahead = 0 THEN read_buf(zs, inp, 1) ELSE zs, inp),
             out),
           inp, flush, ahead)

\* deflate's last_flush = -1 when it returns with a full output span.
no_room(zs) == IF zs.avail_out = 0 THEN [zs EXCEPT !.last_flush = "none"] ELSE zs

\* The return at the end of deflate (raw deflate has no trailer).
deflate_tail(zs, out, flush) ==
  [zs |-> zs, out |-> out,
   ret |-> IF flush # "Z_FINISH" THEN "Z_OK" ELSE "Z_STREAM_END"]

\* After a block_done: the flush marker, given f, the marker flushed.
deflate_marker(f, flush) ==
  IF f.zs.avail_out = 0
    THEN [zs |-> no_room(f.zs), out |-> f.out, ret |-> "Z_OK"]
    ELSE deflate_tail(f.zs, f.out, flush)

\* What deflate does with b, the result of the block loop.
deflate_block(b, flush) ==
  IF b.bstate = "need_more"
    THEN [zs |-> no_room(b.zs), out |-> b.out, ret |-> "Z_OK"]
  ELSE IF b.bstate = "finish_started"
    THEN [zs |-> no_room([b.zs EXCEPT !.status = "FINISH_STATE"]), out |-> b.out,
          ret |-> "Z_OK"]
  ELSE IF b.bstate = "block_done"
    THEN deflate_marker(flush_pending([b.zs EXCEPT !.pending = @ \o StoredEmpty], b.out),
                        flush)
  ELSE deflate_tail([b.zs EXCEPT !.status = "FINISH_STATE"], b.out, flush)

\* What deflate does once the pending output of earlier calls is written.
deflate_run(zs, out, inp, flush, ahead) ==
  IF zs.avail_in # 0 \/ zs.lookahead # 0
     \/ (flush # "Z_NO_FLUSH" /\ zs.status # "FINISH_STATE")
    THEN deflate_block(deflate_fast(zs, out, inp, flush, ahead), flush)
    ELSE deflate_tail(zs, out, flush)

\* deflate after its argument checks, given f, the pending output flushed.
deflate_start(zs, old_flush, f, inp, flush, ahead) ==
  IF zs.pending # <<>> /\ f.zs.avail_out = 0
    THEN [zs |-> [f.zs EXCEPT !.last_flush = "none"], out |-> f.out, ret |-> "Z_OK"]
  ELSE IF zs.pending = <<>> /\ zs.avail_in = 0
          /\ Rank(flush) <= Rank(old_flush) /\ flush # "Z_FINISH"
    THEN [zs |-> zs, out |-> f.out, ret |-> "Z_BUF_ERROR"]
  ELSE IF f.zs.status = "FINISH_STATE" /\ f.zs.avail_in # 0
    THEN [zs |-> f.zs, out |-> f.out, ret |-> "Z_BUF_ERROR"]
  ELSE deflate_run(f.zs, f.out, inp, flush, ahead)

\* deflate(&zs, flush).  memError: the backend reports an allocation failure.
deflate(zs, out, inp, flush, ahead, memError) ==
  IF memError THEN [zs |-> zs, out |-> out, ret |-> "Z_MEM_ERROR"]
  ELSE IF zs.avail_out = 0 THEN [zs |-> zs, out |-> out, ret |-> "Z_BUF_ERROR"]
  ELSE deflate_start([zs EXCEPT !.last_flush = flush], zs.last_flush,
                     flush_pending([zs EXCEPT !.last_flush = flush], out),
                     inp, flush, ahead)

(***************************************************************************)
(* The zstd backend (ZSTD_compressStream, ZSTD_flushStream,                *)
(* ZSTD_endStream on a buffered ZSTD_CStream).  inBuff holds the input     *)
(* consumed and not yet compressed, outBuff the compressed bytes not yet   *)
(* written to the caller's span.  A block never fills between two flushes: *)
(* zstd's block size is at least twice CHUNK_SIZE.                         *)
(***************************************************************************)
FrameMagic == <<900>>

\* Block header: the last-block flag and the block's size.
BlockHeader(last, n) == 100 + 2 * n + (IF last THEN 1 ELSE 0)

Block(last, bytes) ==
  <<BlockHeader(last, Len(bytes))>> \o [i \in 1..Len(bytes) |-> Literal(bytes[i])]

\* Writes as much of outBuff as the span [dst + pos, dst + size) takes.
ZSTD_flushOut(zcs, output, out) ==
  LET n == Min(Len(zcs.outBuff), output.size - output.pos) IN
  [zcs    |-> [zcs EXCEPT !.outBuff = SubSeq(@, n + 1, Len(@))],
   output |-> [output EXCEPT !.pos = @ + n],
   out    |-> WriteAt(out, output.dst + output.pos, SubSeq(zcs.outBuff, 1, n))]

\* The size_t a zstd call returns: an error code, or a value.
ZSTD_error == [err |-> TRUE, val |-> 0]

ZSTD_value(n) == [err |-> FALSE, val |-> n]

ZSTD_isError(ret) == ret.err

\* What a call returns after it wrote f = ZSTD_flushOut(...): ret counts outBuff.
ZSTD_flushed(f) ==
  [zcs |-> f.zcs, output |-> f.output, out |-> f.out,
   ret |-> ZSTD_value(Len(f.zcs.outBuff))]

\* ZSTD_compressStream after it wrote f: input is loaded once outBuff is empty.
ZSTD_load(f, src) ==
  IF f.zcs.outBuff # <<>>
    THEN [zcs |-> f.zcs, output |-> f.output, out |-> f.out, pos |-> 0,
          ret |-> ZSTD_value(1)]
    ELSE [zcs |-> [f.zcs EXCEPT !.inBuff = @ \o src, !.fed = @ \o src],
          output |-> f.output, out |-> f.out, pos |-> Len(src),
          ret |-> ZSTD_value(1)]

\* ZSTD_compressStream(zcs, &output, &input): returns a hint (> 0) or an error.
ZSTD_compressStream(zcs, output, out, src, memError) ==
  IF memError
    THEN [zcs |-> zcs, output |-> output, out |-> out, pos |-> 0, ret |-> ZSTD_error]
    ELSE ZSTD_load(ZSTD_flushOut(zcs, output, out), src)

\* The buffered input becomes a block of outBuff, after the frame header if
\* this is the frame's first block.
ZSTD_endBlock(zcs, last) ==
  [zcs EXCEPT !.outBuff = @ \o (IF zcs.frameStarted THEN <<>> ELSE FrameMagic)
                            \o Block(last, zcs.inBuff),
              !.inBuff = <<>>,
              !.frameStarted = TRUE,
              !.frameEnded = last]

\* ZSTD_flushStream(zcs, &output): ret is the number of bytes left in outBuff.
ZSTD_flushStream(zcs, output, out, memError) ==
  IF memError
    THEN [zcs |-> zcs, output |-> output, out |-> out, ret |-> ZSTD_error]
    ELSE ZSTD_flushed(ZSTD_flushOut(IF zcs.inBuff = <<>> THEN zcs
                                    ELSE ZSTD_endBlock(zcs, FALSE),
                                    output, out))

\* ZSTD_endStream(zcs, &output): 0 iff the frame is ended and fully written.
ZSTD_endStream(zcs, output, out, memError) ==
  IF memError
    THEN [zcs |-> zcs, output |-> output, out |-> out, ret |-> ZSTD_error]
    ELSE ZSTD_flushed(ZSTD_flushOut(IF zcs.frameEnded THEN zcs
                                    ELSE ZSTD_endBlock(zcs, TRUE),
                                    output, out))

(***************************************************************************)
(* The Compressor object.                                                  *)
(***************************************************************************)
\* Compressor::Compressor
Compressor(inp, algorithm, level) ==
  [algorithm_       |-> algorithm,
   level_           |-> level,
   inp              |-> inp,
   inplen           |-> Len(inp),
   inplenHi         |-> 0,
   initialized      |-> FALSE,
   finished         |-> FALSE,
   currentChunkSize |-> 0,
   zstdInputPos     |-> 0,
   outbytes         |-> sizeofHeader,
   chunkOffsets     |-> <<>>,
   zs               |-> [next_in |-> 0, avail_in |-> 0, next_out |-> -1, avail_out |-> 0,
                         state |-> FALSE, pending |-> <<>>, lookahead |-> 0,
                         last_flush |-> "init", status |-> "BUSY_STATE", fed |-> <<>>],
   zstdCStream      |-> [live |-> FALSE, inBuff |-> <<>>, outBuff |-> <<>>,
                         frameStarted |-> FALSE, frameEnded |-> FALSE, fed |-> <<>>],
   zstdOutput       |-> [dst |-> -1, size |-> 0, pos |-> 0]]

\* A compressor for an input of hi * 65536 + lo bytes, too long to be held
\* here: inplenHi counts the multiples of 65536 in its length and inplen the
\* rest.  For the inputs held here inplenHi is 0 and inplen the whole length.
HugeCompressor(hi, lo, algorithm, level) ==
  [Compressor(<<>>, algorithm, level) EXCEPT !.inplenHi = hi, !.inplen = lo]

\* The length of c's input is less than hi * 65536 + lo.
LengthBelow(c, hi, lo) ==
  c.inplenHi + c.inplen \div 65536 < hi
  \/ (c.inplenHi + c.inplen \div 65536 = hi /\ c.inplen % 65536 < lo)

\* An init without the length check.
AtLeastUINT32_MAX_never(c) == FALSE

\* inplen >= UINT32_MAX (UINT32_MAX is 65535 * 65536 + 65535).
AtLeastUINT32_MAX(c) == ~LengthBelow(c, 65535, 65535)

\* Compressor::init.  alloc is what the backend's allocation does: "ok",
\* "create_fails" (deflateInit2 reports Z_MEM_ERROR, ZSTD_createCStream returns
\* null) or "init_fails" (ZSTD_initCStream reports an error).
\* The assertions among checks (name, holds) that fail.
Failing(checks) == {k[1] : k \in {x \in checks : ~x[2]}}

\* created and released count the stream handles the call creates and releases
\* (ZSTD_freeCStream at line 119).
init(c, alloc) ==
  IF AtLeastUINT32_MAX(c) THEN [c |-> c, ok |-> FALSE, created |-> 0, released |-> 0]
  ELSE IF c.algorithm_ = "ZLIB"
    THEN IF alloc # "ok" THEN [c |-> c, ok |-> FALSE, created |-> 0, released |-> 0]
         ELSE [c |-> [c EXCEPT !.zs.state = TRUE, !.initialized = TRUE], ok |-> TRUE,
               created |-> 1, released |-> 0]
  ELSE IF c.algorithm_ = "ZSTD"
    THEN IF alloc = "create_fails"
           THEN [c |-> c, ok |-> FALSE, created |-> 0, released |-> 0]
         ELSE IF alloc = "init_fails"
           THEN [c |-> c, ok |-> FALSE, created |-> 1, released |-> 1]
         ELSE [c |-> [c EXCEPT !.zstdCStream.live = TRUE, !.initialized = TRUE],
               ok |-> TRUE, created |-> 1, released |-> 0]
  ELSE [c |-> c, ok |-> FALSE, created |-> 0, released |-> 0]

(***************************************************************************)
(* Compressor::~Compressor.  released counts the release calls it makes    *)
(* (deflateEnd, ZSTD_freeCStream).  deflateEnd reports Z_DATA_ERROR when   *)
(* the stream was not finished.                                            *)
(***************************************************************************)
\* A destructor without the test of initialized.
destroy_always(c) ==
  IF c.algorithm_ = "ZLIB"
    THEN [c |-> [c EXCEPT !.zs.state = FALSE], released |-> 1, asserts |-> {}]
  ELSE IF c.algorithm_ = "ZSTD" /\ c.zstdCStream.live
    THEN [c |-> [c EXCEPT !.zstdCStream.live = FALSE], released |-> 1, asserts |-> {}]
  ELSE [c |-> c, released |-> 0, asserts |-> {}]

destroy(c) ==
  IF ~c.initialized THEN [c |-> c, released |-> 0, asserts |-> {}]
  ELSE IF c.algorithm_ = "ZLIB"
    THEN [c |-> [c EXCEPT !.zs.state = FALSE], released |-> 1,
          asserts |-> IF c.zs.status = "FINISH_STATE" THEN {}
                      ELSE Failing({<<"not_finished", ~c.finished>>})]
  ELSE IF c.algorithm_ = "ZSTD" /\ c.zstdCStream.live
    THEN [c |-> [c EXCEPT !.zstdCStream.live = FALSE], released |-> 1, asserts |-> {}]
  ELSE [c |-> c, released |-> 0, asserts |-> {}]

\* A setOutput that binds the backend to the start of the buffer.
setOutput_fromStart(c, outlen) ==
  IF c.algorithm_ = "ZLIB"
    THEN [c EXCEPT !.zs.next_out = sizeofHeader,
                   !.zs.avail_out = outlen - sizeofHeader]
  ELSE IF c.algorithm_ = "ZSTD"
    THEN [c EXCEPT !.zstdOutput = [dst |-> sizeofHeader,
                                   size |-> outlen - sizeofHeader,
                                   pos |-> 0]]
  ELSE c

\* Compressor::setOutput(out, outlen): only the backend's output span changes.
setOutput(c, outlen) ==
  IF c.algorithm_ = "ZLIB"
    THEN [c EXCEPT !.zs.next_out = c.outbytes,
                   !.zs.avail_out = outlen - c.outbytes]
  ELSE IF c.algorithm_ = "ZSTD"
    THEN [c EXCEPT !.zstdOutput = [dst |-> c.outbytes,
                                   size |-> outlen - c.outbytes,
                                   pos |-> 0]]
  ELSE c

(***************************************************************************)
(* compressMore.  A step takes the compressor c, the bound output buffer   *)
(* out and what the environment does in this step (env.ahead: how far zlib *)
(* reads ahead when the output fills; env.fail: which backend call of the  *)
(* step reports an allocation failure, 0 for none; env.append: whether     *)
(* chunkOffsets can grow).  It yields the new compressor and buffer, the   *)
(* Status returned and the step's locals (loc).                            *)
(***************************************************************************)
NoLocals ==
  [done |-> FALSE, flush |-> FALSE, offered |-> 0, consumed |-> 0, written |-> 0,
   ret |-> "none", streamEnd |-> FALSE, appended |-> FALSE, asserts |-> {}]

\* A driver that records an offset only at the end of the stream.
ShouldRecord_doneOnly(c1, loc) == loc.done

\* A driver that records an offset after every step.
ShouldRecord_always(c1, loc) == TRUE

\* Lines 194 and 278: the step ends the stream or a chunk.
ShouldRecord(c1, loc) == loc.done \/ c1.currentChunkSize = CHUNK_SIZE

\* Lines 194-206 and 278-293: the chunk offset is recorded when the step ends
\* the stream or a chunk, and the Status is returned.  c1 is the compressor
\* after the backend call, endsOk what the last two assertions of the zlib
\* driver require.
recordChunk(c1, out, loc, env, endsOk) ==
  LET record == ShouldRecord(c1, loc)
      checks == IF record
                  THEN {<<"flush", loc.done \/ loc.flush>>,
                        <<"chunkSize", chunkSize(c1.inplen, Len(c1.chunkOffsets))
                                         = c1.currentChunkSize>>}
                  ELSE {}
  IN IF record /\ ~env.append
       THEN [c |-> c1, out |-> out, status |-> "OOM",
             loc |-> [loc EXCEPT !.asserts = @ \cup Failing(checks)]]
       ELSE [c |-> IF record
                     THEN [c1 EXCEPT !.chunkOffsets = Append(@, c1.outbytes),
                                     !.currentChunkSize = 0]
                     ELSE c1,
             out |-> out,
             status |-> IF loc.done THEN "DONE" ELSE "CONTINUE",
             loc |-> [loc EXCEPT
                        !.appended = record,
                        !.asserts = @ \cup Failing(checks \cup
                          {<<"length", loc.done =>
                               Len(c1.chunkOffsets) + 1 = NumChunks(c1.inplen)>>,
                           <<"ret", endsOk>>})]]

\* A driver that forgets to advance currentChunkSize.
zlibAccount_noChunkSize(c, zs) ==
  [c EXCEPT !.zs = zs,
            !.outbytes = @ + (zs.next_out - c.zs.next_out)]

\* Lines 176-180: outbytes and currentChunkSize advance by what deflate, which
\* left the stream as zs, wrote and read.
zlibAccount(c, zs) ==
  [c EXCEPT !.zs = zs,
            !.outbytes = @ + (zs.next_out - c.zs.next_out),
            !.currentChunkSize = @ + (zs.next_in - c.zs.next_in)]

\* Lines 179-206 of compressMoreZlib, given d, what deflate did.
zlibStatus(c, d, loc, env) ==
  LET c1 == zlibAccount(c, d.zs)
      loc1 == [loc EXCEPT
                 !.consumed = d.zs.next_in - c.zs.next_in,
                 !.written = d.zs.next_out - c.zs.next_out,
                 !.ret = d.ret,
                 !.streamEnd = (d.ret = "Z_STREAM_END"),
                 !.asserts = @ \cup Failing(
                    {<<"chunk_le_after", c1.currentChunkSize <= CHUNK_SIZE>>})]
  IN IF d.ret = "Z_MEM_ERROR"
       THEN [c |-> [c1 EXCEPT !.zs.avail_out = 0], out |-> d.out, status |-> "OOM",
             loc |-> loc1]
     ELSE IF d.ret = "Z_BUF_ERROR" \/ (d.ret = "Z_OK" /\ d.zs.avail_out = 0)
       THEN [c |-> c1, out |-> d.out, status |-> "MOREOUTPUT",
             loc |-> [loc1 EXCEPT !.asserts = @ \cup Failing(
                        {<<"avail_out_zero", d.zs.avail_out = 0>>})]]
     ELSE recordChunk(c1, d.out, loc1, env,
                      IF loc.done THEN d.ret = "Z_STREAM_END" ELSE d.ret = "Z_OK")

\* A driver that ends every full chunk with a flush, the last one too, and
\* finalizes in a step of its own.
zlibStep_flushFirst(c, out, env, left, avail0) ==
  LET flush == c.currentChunkSize + avail0 >= CHUNK_SIZE
      avail == IF flush THEN CHUNK_SIZE - c.currentChunkSize ELSE avail0
      done  == avail = left /\ ~(flush /\ avail > 0)
  IN zlibStatus(c,
                deflate([c.zs EXCEPT !.avail_in = avail], out, c.inp,
                        IF done THEN "Z_FINISH"
                        ELSE IF flush THEN "Z_FULL_FLUSH" ELSE "Z_NO_FLUSH",
                        env.ahead, env.fail = 1),
                [NoLocals EXCEPT
                   !.done = done, !.flush = flush, !.offered = avail,
                   !.asserts = {}],
                env)

\* Lines 162-178 of compressMoreZlib, given avail_in as lines 155-160 set it.
zlibStep(c, out, env, left, avail0) ==
  LET flush == c.currentChunkSize + avail0 >= CHUNK_SIZE
      avail == IF flush THEN CHUNK_SIZE - c.currentChunkSize ELSE avail0
      done  == avail = left
  IN zlibStatus(c,
                deflate([c.zs EXCEPT !.avail_in = avail], out, c.inp,
                        IF done THEN "Z_FINISH"
                        ELSE IF flush THEN "Z_FULL_FLUSH" ELSE "Z_NO_FLUSH",
                        env.ahead, env.fail = 1),
                [NoLocals EXCEPT
                   !.done = done, !.flush = flush, !.offered = avail,
                   !.asserts = Failing({<<"next_out", c.zs.next_out # -1>>,
                                        <<"chunk_le", c.currentChunkSize <= CHUNK_SIZE>>,
                                        <<"avail_le_left", avail <= left>>})],
                env)

\* Compressor::compressMoreZlib
compressMoreZlib(c, out, env) ==
  zlibStep(c, out, env, c.inplen - c.zs.next_in,
           IF c.inplen - c.zs.next_in <= MAX_INPUT_SIZE THEN c.inplen - c.zs.next_in
           ELSE IF c.zs.avail_in = 0 THEN MAX_INPUT_SIZE
           ELSE c.zs.avail_in)

\* How a zstd return value reads in the step's locals.
zstdRet(ret) == IF ret.err THEN "error" ELSE IF ret.val = 0 THEN "zero" ELSE "positive"

\* A backend call failed: the step returns OOM at once (lines 245, 255, 265).
zstdError(c, r, loc) ==
  [c |-> [c EXCEPT !.zstdCStream = r.zcs, !.zstdOutput = r.output],
   out |-> r.out, status |-> "OOM", loc |-> [loc EXCEPT !.ret = "error"]]

\* A driver that forgets to advance zstdInputPos.
zstdAccount_noCursor(c, zcs, output, consumed) ==
  [c EXCEPT !.zstdCStream = zcs,
            !.zstdOutput = output,
            !.outbytes = @ + (output.pos - c.zstdOutput.pos),
            !.currentChunkSize = @ + consumed]

\* Lines 268-270: outbytes, currentChunkSize and zstdInputPos advance by what
\* the backend, which left its state as zcs and output, wrote and consumed.
zstdAccount(c, zcs, output, consumed) ==
  [c EXCEPT !.zstdCStream = zcs,
            !.zstdOutput = output,
            !.outbytes = @ + (output.pos - c.zstdOutput.pos),
            !.currentChunkSize = @ + consumed,
            !.zstdInputPos = @ + consumed]

\* Lines 264-293 of compressMoreZstd, given r, what the last backend call of the
\* step left, and consumed, the zstdInput.pos of the step.
zstdStatus(c, r, consumed, loc, env) ==
  IF ZSTD_isError(r.ret)
    THEN zstdError(c, r, [loc EXCEPT !.consumed = consumed,
                                     !.written = r.output.pos - c.zstdOutput.pos])
  ELSE
    LET c1 == zstdAccount(c, r.zcs, r.output, consumed)
        loc1 == [loc EXCEPT
                   !.consumed = consumed,
                   !.written = r.output.pos - c.zstdOutput.pos,
                   !.ret = zstdRet(r.ret),
                   !.streamEnd = (loc.done /\ r.ret.val = 0),
                   !.asserts = @ \cup Failing(
                      {<<"chunk_le_after", c1.currentChunkSize <= CHUNK_SIZE>>})]
    IN IF r.output.pos = r.output.size /\ ~loc.done
         THEN [c |-> c1, out |-> r.out, status |-> "MOREOUTPUT", loc |-> loc1]
         ELSE recordChunk(c1, r.out, loc1, env, TRUE)

\* Lines 248-249 and 258-259: the ZSTD_endStream or ZSTD_flushStream call,
\* given r1, what the ZSTD_compressStream call before it left.
zstdSecond(c, r1, loc, env, memError) ==
  IF ZSTD_isError(r1.ret) THEN zstdError(c, r1, loc)
  ELSE zstdStatus(c,
                  IF loc.done
                    THEN ZSTD_endStream(r1.zcs, r1.output, r1.out, memError)
                    ELSE ZSTD_flushStream(r1.zcs, r1.output, r1.out, memError),
                  r1.pos, loc, env)

\* Lines 240-262, given the step's input span src and its locals.
zstdBackend(c, out, env, src, loc) ==
  IF loc.done \/ loc.flush
    THEN IF Len(src) > 0
           THEN zstdSecond(c,
                           ZSTD_compressStream(c.zstdCStream, c.zstdOutput, out, src,
                                               env.fail = 1),
                           loc, env, env.fail = 2)
           ELSE zstdSecond(c,
                           [zcs |-> c.zstdCStream, output |-> c.zstdOutput, out |-> out,
                            pos |-> 0, ret |-> ZSTD_value(0)],
                           loc, env, env.fail = 1)
    ELSE zstdStatus(c,
                    ZSTD_compressStream(c.zstdCStream, c.zstdOutput, out, src,
                                        env.fail = 1),
                    Len(src), loc, env)

\* A driver that takes a chunk that is already full for flushed.
zstdStep_fullIsFlushed(c, out, env, left, inputSize0) ==
  LET flush == c.currentChunkSize + inputSize0 >= CHUNK_SIZE
                 /\ c.currentChunkSize < CHUNK_SIZE
      inputSize == IF flush THEN CHUNK_SIZE - c.currentChunkSize ELSE inputSize0
  IN zstdBackend(c, out, env,
                 SubSeq(c.inp, c.zstdInputPos + 1, c.zstdInputPos + inputSize),
                 [NoLocals EXCEPT
                    !.done = (inputSize = left), !.flush = flush,
                    !.offered = inputSize,
                    !.asserts = {}])

\* Lines 218-235 of compressMoreZstd, given inputSize as lines 210-216 set it.
zstdStep(c, out, env, left, inputSize0) ==
  LET flush == c.currentChunkSize + inputSize0 >= CHUNK_SIZE
      inputSize == IF flush THEN CHUNK_SIZE - c.currentChunkSize ELSE inputSize0
  IN zstdBackend(c, out, env,
                 SubSeq(c.inp, c.zstdInputPos + 1, c.zstdInputPos + inputSize),
                 [NoLocals EXCEPT
                    !.done = (inputSize = left), !.flush = flush,
                    !.offered = inputSize,
                    !.asserts = Failing({<<"chunk_le", c.currentChunkSize <= CHUNK_SIZE>>,
                                         <<"avail_le_left", inputSize <= left>>})])

\* A driver that offers all the remaining input, however much it is.
compressMoreZstd_noMax(c, out, env) ==
  zstdStep(c, out, env, c.inplen - c.zstdInputPos, c.inplen - c.zstdInputPos)

\* Compressor::compressMoreZstd
compressMoreZstd(c, out, env) ==
  zstdStep(c, out, env, c.inplen - c.zstdInputPos,
           IF c.inplen - c.zstdInputPos <= MAX_INPUT_SIZE
             THEN c.inplen - c.zstdInputPos ELSE MAX_INPUT_SIZE)

\* Compressor::compressMore
compressMore(c, out, env) ==
  IF c.algorithm_ = "ZLIB" THEN compressMoreZlib(c, out, env)
  ELSE IF c.algorithm_ = "ZSTD" THEN compressMoreZstd(c, out, env)
  ELSE [c |-> c, out |-> out, status |-> "OOM", loc |-> NoLocals]

\* A size that leaves the alignment padding out.
totalBytesNeeded_unaligned(c) == c.outbytes + sizeOfChunkOffsets(c)

\* Compressor::totalBytesNeeded
totalBytesNeeded(c) == AlignBytes(c.outbytes, sizeofU32) + sizeOfChunkOffsets(c)

\* The bytes of a 32-bit value, little-endian (truncated to 32 bits).
U32Bytes(v) ==
  <<v % 256, (v \div 256) % 256, (v \div 65536) % 256, (v \div 16777216) % 256>>

ReadU32(mem, off) ==
  mem[off + 1] + 256 * mem[off + 2] + 65536 * mem[off + 3] + 16777216 * mem[off + 4]

AlgorithmTag(algorithm) == IF algorithm = "ZLIB" THEN 0 ELSE 1

RECURSIVE OffsetBytes(_)
OffsetBytes(offsets) ==
  IF offsets = <<>> THEN <<>>
  ELSE U32Bytes(Head(offsets)) \o OffsetBytes(Tail(offsets))

\* A header whose first field counts the payload alone.
HeaderBytes_payloadOnly(c) ==
  U32Bytes(c.outbytes - sizeofHeader) \o <<AlgorithmTag(c.algorithm_), c.level_>>
  \o <<0, 0>>

\* A header that leaves the level and the reserved field as the buffer had them.
HeaderBytes_tagOnly(c) == U32Bytes(c.outbytes) \o <<AlgorithmTag(c.algorithm_)>>

\* Lines 303-308: the CompressedDataHeader finish writes.
HeaderBytes(c) ==
  U32Bytes(c.outbytes) \o <<AlgorithmTag(c.algorithm_), c.level_>> \o <<0, 0>>

\* A finish that does not zero the padding.
PaddingBytes_none(c) == <<>>

\* Lines 310-313: PodZero over the padding.
PaddingBytes(c) ==
  [i \in 1..(AlignBytes(c.outbytes, sizeofU32) - c.outbytes) |-> 0]

(***************************************************************************)
(* Compressor::finish(dest, destBytes): stamps the header, zeroes the      *)
(* padding and copies the chunk offsets into dest, the buffer that already *)
(* holds the payload.  asserts names the assertions that fail.             *)
(***************************************************************************)
finish(c, dest) ==
  LET destBytes == Len(dest)
      outbytesAligned == AlignBytes(c.outbytes, sizeofU32)
      d1 == WriteAt(dest, 0, HeaderBytes(c))
      d2 == WriteAt(d1, c.outbytes, PaddingBytes(c))
      d3 == WriteAt(d2, outbytesAligned, OffsetBytes(c.chunkOffsets))
  IN [c |-> [c EXCEPT !.finished = TRUE],
      dest |-> d3,
      asserts |-> (IF c.chunkOffsets # <<>> THEN {} ELSE {"nonempty"})
                 \cup (IF destBytes = outbytesAligned + Len(c.chunkOffsets) * sizeofU32
                         THEN {} ELSE {"dest_end"})]

(***************************************************************************)
(* The decoders' backends.  inflate (raw, inflateInit2 with WindowBits)    *)
(* reads a segment of the deflate stream into an output span of outlen     *)
(* bytes; ZSTD_decompress reads whole frames.                              *)
(***************************************************************************)
IsLiteral(t) == t >= 1000

Unliteral(t) == t - 1000

\* inflate from symbol i on, produced being the output so far.
RECURSIVE inflate(_, _, _, _, _)
inflate(seg, i, produced, outlen, flush) ==
  LET stalled == [ret |-> IF flush = "Z_FINISH" \/ (i = 1 /\ produced = <<>>)
                            THEN "Z_BUF_ERROR" ELSE "Z_OK",
                  out |-> produced, avail_in |-> Len(seg) - i + 1,
                  avail_out |-> outlen - Len(produced)]
  IN IF i > Len(seg) THEN stalled
     ELSE IF IsLiteral(seg[i])
       THEN IF Len(produced) = outlen THEN stalled
            ELSE inflate(seg, i + 1, Append(produced, Unliteral(seg[i])), outlen, flush)
     ELSE IF seg[i] = StoredEmpty[1]
       THEN IF i = Len(seg) THEN stalled
            ELSE IF seg[i + 1] = StoredEmpty[2]
              THEN inflate(seg, i + 2, produced, outlen, flush)
            ELSE [stalled EXCEPT !.ret = "Z_DATA_ERROR"]
     ELSE IF seg[i] = FinalBlock[1]
       THEN [stalled EXCEPT !.ret = "Z_STREAM_END", !.avail_in = Len(seg) - i]
     ELSE [stalled EXCEPT !.ret = "Z_DATA_ERROR"]

\* The largest block zstd emits.
ZSTD_BLOCKSIZE_MAX == 2 * CHUNK_SIZE

IsBlockHeader(t) == t >= BlockHeader(FALSE, 0) /\ t <= BlockHeader(TRUE, ZSTD_BLOCKSIZE_MAX)

BlockIsLast(t) == (t - BlockHeader(FALSE, 0)) % 2 = 1

BlockLen(t) == (t - BlockHeader(FALSE, 0)) \div 2

AllLiterals(seg, from, to) == \A k \in from..to : IsLiteral(seg[k])

\* ZSTD_decompress from symbol i on: inFrame says a frame header has been read
\* and its last block has not.
RECURSIVE ZSTD_decompressFrom(_, _, _, _, _)
ZSTD_decompressFrom(src, i, inFrame, produced, dstCapacity) ==
  IF i > Len(src)
    THEN IF inFrame \/ i = 1 THEN [err |-> TRUE, val |-> 0, out |-> produced]
         ELSE [err |-> FALSE, val |-> Len(produced), out |-> produced]
  ELSE IF ~inFrame
    THEN IF src[i] = FrameMagic[1]
           THEN ZSTD_decompressFrom(src, i + 1, TRUE, produced, dstCapacity)
           ELSE [err |-> TRUE, val |-> 0, out |-> produced]
  ELSE IF ~IsBlockHeader(src[i]) \/ i + BlockLen(src[i]) > Len(src)
    THEN [err |-> TRUE, val |-> 0, out |-> produced]
  ELSE IF ~AllLiterals(src, i + 1, i + BlockLen(src[i]))
          \/ Len(produced) + BlockLen(src[i]) > dstCapacity
    THEN [err |-> TRUE, val |-> 0, out |-> produced]
  ELSE ZSTD_decompressFrom(src, i + 1 + BlockLen(src[i]), ~BlockIsLast(src[i]),
                           produced \o [k \in 1..BlockLen(src[i]) |->
                                          Unliteral(src[i + k])],
                           dstCapacity)

ZSTD_decompress(dstCapacity, src) == ZSTD_decompressFrom(src, 1, FALSE, <<>>, dstCapacity)

(***************************************************************************)
(* js::DecompressStringChunk(inp, chunk, out, outlen).  result is "true"   *)
(* or "false", or "abort" when a release assertion fails; asserts names    *)
(* the debug assertions that fail; out is what was decoded.                *)
(***************************************************************************)
\* A dispatch that takes every tag but ZLIB's for ZSTD's.
backendOf_else(algorithm) ==
  IF algorithm = AlgorithmTag("ZLIB") THEN "ZLIB" ELSE "ZSTD"

\* Lines 338 and 361, 398 and 435: the backend the header's tag selects.
backendOf(algorithm) ==
  IF algorithm = AlgorithmTag("ZLIB") THEN "ZLIB"
  ELSE IF algorithm = AlgorithmTag("ZSTD") THEN "ZSTD"
  ELSE "NONE"

\* Lines 422-434, given r, what inflate did.
chunkInflated(r, lastChunk, asserts) ==
  IF lastChunk /\ r.ret # "Z_STREAM_END"
    THEN [result |-> "abort", out |-> r.out, asserts |-> asserts]
  ELSE IF ~lastChunk /\ r.ret = "Z_MEM_ERROR"
    THEN [result |-> "false", out |-> r.out, asserts |-> asserts]
  ELSE IF ~lastChunk /\ r.ret # "Z_OK"
    THEN [result |-> "abort", out |-> r.out, asserts |-> asserts]
  ELSE [result |-> "true", out |-> r.out,
        asserts |-> asserts \cup Failing({<<"avail_in", r.avail_in = 0>>,
                                          <<"avail_out", r.avail_out = 0>>})]

\* Lines 435-441, given r, what ZSTD_decompress did.
chunkZstd(r, outlen, asserts) ==
  [result |-> IF ~r.err /\ r.val = outlen THEN "true" ELSE "false",
   out |-> r.out, asserts |-> asserts]

\* Lines 390-444, given the segment's bounds.
chunkDecode(inp, algorithm, compressedBytes, compressedStart, compressedEnd, outlen) ==
  LET asserts == Failing({<<"start_lt_end", compressedStart < compressedEnd>>,
                          <<"end_le_bytes", compressedEnd <= compressedBytes>>,
                          <<"outlen", outlen > 0>>})
      lastChunk == compressedEnd = compressedBytes
      seg == SubSeq(inp, compressedStart + 1, compressedEnd)
  IN IF backendOf(algorithm) = "ZLIB"
       THEN chunkInflated(inflate(seg, 1, <<>>, outlen,
                                  IF lastChunk THEN "Z_FINISH" ELSE "Z_NO_FLUSH"),
                          lastChunk, asserts)
     ELSE IF backendOf(algorithm) = "ZSTD"
       THEN chunkZstd(ZSTD_decompress(outlen, seg), outlen, asserts)
     ELSE [result |-> "false", out |-> <<>>, asserts |-> asserts]

\* A decoder that takes chunk 0 to start with the container.
compressedStart_zero(inp, chunk, compressedBytes) ==
  IF chunk > 0
    THEN ReadU32(inp, AlignBytes(compressedBytes, sizeofU32) + (chunk - 1) * sizeofU32)
    ELSE 0

\* Lines 380-388: compressedStart and compressedEnd of a chunk.
compressedStart(inp, chunk, compressedBytes) ==
  IF chunk > 0
    THEN ReadU32(inp, AlignBytes(compressedBytes, sizeofU32) + (chunk - 1) * sizeofU32)
    ELSE sizeofHeader

compressedEnd(inp, chunk, compressedBytes) ==
  ReadU32(inp, AlignBytes(compressedBytes, sizeofU32) + chunk * sizeofU32)

\* Lines 376-388: the header and the offset table.
chunkBounds(inp, chunk, outlen, compressedBytes) ==
  chunkDecode(inp, inp[5], compressedBytes,
              compressedStart(inp, chunk, compressedBytes),
              compressedEnd(inp, chunk, compressedBytes),
              outlen)

DecompressStringChunk(inp, chunk, outlen) ==
  chunkBounds(inp, chunk, outlen, ReadU32(inp, 0))

(***************************************************************************)
(* js::DecompressString(inp, inplen, out, outlen): the whole-blob decoder. *)
(* It hands the backend the container from its first byte, header         *)
(* included, and for zlib opens the stream with inflateInit (zlib framing).*)
(***************************************************************************)
\* The check inflate makes of the two-byte zlib header.
ZlibHeaderOk(cmf, flg) ==
  cmf % 16 = 8 /\ cmf \div 16 <= 7 /\ (cmf * 256 + flg) % 31 = 0

\* After the last block a zlib stream carries the Adler-32 of the data; the
\* bytes that follow a raw deflate stream are not one.
inflateTrailer(r) ==
  IF r.ret = "Z_STREAM_END" THEN [r EXCEPT !.ret = "Z_DATA_ERROR"] ELSE r

\* inflate on a stream opened with inflateInit.
inflateWrapped(src, outlen, flush) ==
  IF Len(src) < 2
    THEN [ret |-> "Z_BUF_ERROR", out |-> <<>>, avail_in |-> Len(src),
          avail_out |-> outlen]
  ELSE IF ~ZlibHeaderOk(src[1], src[2])
    THEN [ret |-> "Z_DATA_ERROR", out |-> <<>>, avail_in |-> Len(src) - 2,
          avail_out |-> outlen]
  ELSE inflateTrailer(inflate(SubSeq(src, 3, Len(src)), 1, <<>>, outlen, flush))

\* Lines 356-360, given r, what inflate did: the result is not looked at
\* outside the assertion.
wholeInflated(r, asserts) ==
  [result |-> "true", out |-> r.out,
   asserts |-> asserts \cup Failing({<<"stream_end", r.ret = "Z_STREAM_END">>})]

\* Lines 365-366, given r, what ZSTD_decompress did.
wholeZstd(r, outlen) ==
  [result |-> IF ~r.err /\ r.val = outlen THEN "true" ELSE "false",
   out |-> r.out, asserts |-> {}]

DecompressString(inp, inplen, outlen) ==
  IF inplen < sizeofHeader
    THEN [result |-> "false", out |-> <<>>, asserts |-> {}]
  ELSE IF backendOf(inp[5]) = "ZLIB"
    THEN wholeInflated(inflateWrapped(SubSeq(inp, 1, inplen), outlen, "Z_FINISH"),
                       Failing({<<"outlen", outlen > 0>>}))
  ELSE IF backendOf(inp[5]) = "ZSTD"
    THEN wholeZstd(ZSTD_decompress(outlen, SubSeq(inp, 1, inplen)), outlen)
  ELSE [result |-> "false", out |-> <<>>, asserts |-> {}]

(***************************************************************************)
(* The state machine: one compressor and the caller that drives it.        *)
(*   cmp     the Compressor object                                         *)
(*   out     the caller's output buffer, bound with setOutput              *)
(*   status  the Status the last compressMore returned ("NONE" before)     *)
(*   step    the locals of the last compressMore call                      *)
(*   pc      where the caller is                                           *)
(*   dest    the container finish has written (empty before)               *)
(*   failed  the assertions that have failed so far                        *)
(*   dec     the last decoder call on dest and what it returned            *)
(*   handle  what the backend's allocation did in init, and how many       *)
(*           stream handles have been created and released                 *)
(***************************************************************************)
VARIABLES cmp, out, status, step, pc, dest, failed, dec, handle

vars == <<cmp, out, status, step, pc, dest, failed, dec, handle>>

\* No decoder has been called.
NoDecode ==
  [op |-> "none", chunk |-> 0, outlen |-> 0, result |-> "none", out |-> <<>>,
   asserts |-> {}]

Seeds == {1}

Environments ==
  [ahead : 0..MAX_INPUT_SIZE, fail : 0..2, append : BOOLEAN]

\* The environment of a run in which nothing fails.
Benign == [ahead |-> 0, fail |-> 0, append |-> TRUE]

\* The algorithms a caller may ask for: the enum is a byte.
Requested == Algorithms \cup {"UNKNOWN"}

\* Lengths around UINT32_MAX, as (multiples of 65536, rest): 2^32 - 2,
\* 2^32 - 1 and 2^32.
HugeLengths == {<<65535, 65534>>, <<65535, 65535>>, <<65536, 0>>}

Init ==
  /\ \/ \E len \in 1..MaxLen, seed \in Seeds, algorithm \in Requested, level \in Levels :
          cmp = Compressor(Blob(len, seed), algorithm, level)
     \/ \E huge \in HugeLengths, algorithm \in Algorithms :
          cmp = HugeCompressor(huge[1], huge[2], algorithm, 0)
  /\ out = <<>>
  /\ status = "NONE"
  /\ step = NoLocals
  /\ pc = "constructed"
  /\ dest = <<>>
  /\ failed = {}
  /\ dec = NoDecode
  /\ handle = [alloc |-> "none", created |-> 0, released |-> 0]

\* The state after init() returned r when the backend's allocation did alloc.
Initialized(r, alloc) ==
  /\ cmp' = r.c
  /\ pc' = IF r.ok THEN "initialized" ELSE "failed"
  /\ handle' = [alloc |-> alloc, created |-> handle.created + r.created,
                released |-> handle.released + r.released]

\* The caller calls init().
DoInit ==
  /\ pc = "constructed"
  /\ \E alloc \in {"ok", "create_fails", "init_fails"} :
       Initialized(init(cmp, alloc), alloc)
  /\ UNCHANGED <<out, status, step, dest, failed, dec>>

\* The caller allocates the first output buffer and binds it.
BindOutput ==
  /\ pc = "initialized"
  /\ cmp.inplenHi = 0
  /\ \E room \in (1..MaxInit) \cup {OutCap - sizeofHeader} :
       /\ out' = Realloc(<<>>, 0, sizeofHeader + room)
       /\ cmp' = setOutput(cmp, sizeofHeader + room)
  /\ pc' = "stepping"
  /\ UNCHANGED <<status, step, dest, failed, dec, handle>>

\* Where the caller goes after a step.
AfterStep(st) ==
  CASE st = "CONTINUE"   -> "stepping"
    [] st = "MOREOUTPUT" -> "needs_output"
    [] st = "DONE"       -> "done"
    [] OTHER             -> "oom"

\* The state after compressMore() returned r.
Stepped(r) ==
  /\ cmp' = r.c
  /\ out' = r.out
  /\ status' = r.status
  /\ step' = r.loc
  /\ pc' = AfterStep(r.status)
  /\ failed' = failed \cup r.loc.asserts

\* The caller calls compressMore().
Step ==
  /\ pc = "stepping"
  /\ \E env \in Environments : Stepped(compressMore(cmp, out, env))
  /\ UNCHANGED <<dest, dec, handle>>

\* After MOREOUTPUT the caller moves the bytes produced so far into a strictly
\* larger buffer and binds it.
Grow ==
  /\ pc = "needs_output"
  /\ \E newlen \in {Len(out) + k : k \in 1..MaxGrow} \cup {OutCap} :
       /\ newlen > Len(out)
       /\ newlen <= OutCap
       /\ out' = Realloc(out, cmp.outbytes, newlen)
       /\ cmp' = setOutput(cmp, newlen)
  /\ pc' = "stepping"
  /\ UNCHANGED <<status, step, dest, failed, dec, handle>>

\* The state after finish() returned r.
Finished(r) ==
  /\ cmp' = r.c
  /\ dest' = r.dest
  /\ failed' = failed \cup r.asserts

\* After DONE the caller resizes the buffer to totalBytesNeeded() and calls finish.
Finish ==
  /\ pc = "done"
  /\ Finished(finish(cmp, Realloc(out, cmp.outbytes, totalBytesNeeded(cmp))))
  /\ pc' = "finished"
  /\ UNCHANGED <<out, status, step, dec, handle>>

\* The state after the destructor did r.
Destroyed(r) ==
  /\ cmp' = r.c
  /\ handle' = [handle EXCEPT !.released = @ + r.released]
  /\ failed' = failed \cup r.asserts

\* The caller destroys the compressor, wherever it is.
Destroy ==
  /\ pc # "destroyed"
  /\ Destroyed(destroy(cmp))
  /\ pc' = "destroyed"
  /\ UNCHANGED <<out, status, step, dest, dec>>

Next == DoInit \/ BindOutput \/ Step \/ Grow \/ Finish \/ Destroy

Spec == Init /\ [][Next]_vars


(***************************************************************************)
(* What the properties below speak of.                                     *)
(***************************************************************************)

\* The input cursor: zs.next_in for zlib, zstdInputPos for zstd.
Cursor(c) == IF c.algorithm_ = "ZLIB" THEN c.zs.next_in ELSE c.zstdInputPos

\* The bytes the backend has been fed so far, in order.
Fed(c) == IF c.algorithm_ = "ZLIB" THEN c.zs.fed ELSE c.zstdCStream.fed

\* The n 32-bit words stored from offset base of mem.
TableAt(mem, base, n) == [i \in 1..n |-> ReadU32(mem, base + sizeofU32 * (i - 1))]

\* The chunk offsets a reader finds in the container.
ContainerOffsets ==
  TableAt(dest, AlignBytes(ReadU32(dest, 0), sizeofU32), NumChunks(cmp.inplen))

\* The caller started with a small buffer and has grown it in small steps.
Grown == Len(out) > sizeofHeader + MaxInit /\ Len(out) < OutCap

\* The run with one buffer large enough for everything and nothing failing.
RECURSIVE RunLarge(_)
RunLarge(r) ==
  IF r.status \in {"DONE", "OOM", "MOREOUTPUT"} THEN r
  ELSE RunLarge(compressMore(r.c, r.out, Benign))

LargeFinished(r) ==
  finish(r.c, Realloc(r.out, r.c.outbytes, totalBytesNeeded(r.c))).dest

LargeRun(c) ==
  RunLarge([c |-> setOutput(c, OutCap), out |-> Realloc(<<>>, 0, OutCap),
            status |-> "NONE", loc |-> NoLocals])

LargeBound(c) == LargeFinished(LargeRun(c))

ReferenceContainer(inp, algorithm, level) ==
  LargeBound(init(Compressor(inp, algorithm, level), "ok").c)

(***************************************************************************)
(* C1 (resumption law): whatever buffer sizes the caller chooses after     *)
(* MOREOUTPUT, a run that ends in DONE and finish produces the same        *)
(* container, byte for byte, as the run with one sufficiently large buffer.*)
(* The code does not have this property.                                   *)
(***************************************************************************)
C1_SameAsLargeBuffer ==
  pc = "finished" =>
    dest = ReferenceContainer(cmp.inp, cmp.algorithm_, cmp.level_)

(***************************************************************************)
(* C2: a step returns DONE only if it offered the last input bytes and the *)
(* backend reported the end of the stream (Z_STREAM_END, a ZSTD_endStream  *)
(* result of 0).  The code does not have this property.                    *)
(***************************************************************************)
C2_DoneOnlyAtStreamEnd ==
  status = "DONE" => step.done /\ step.streamEnd

(***************************************************************************)
(* C3: while no step has failed, the bytes fed to the backend are exactly  *)
(* the input up to the cursor, in order, so each step starts where the     *)
(* previous one stopped, and at DONE the cursor equals inplen.             *)
(***************************************************************************)
C3_NoInputLost ==
  status # "OOM" /\ pc \notin {"constructed", "failed"} =>
    /\ Cursor(cmp) \in 0..cmp.inplen
    /\ Fed(cmp) = SubSeq(cmp.inp, 1, Cursor(cmp))
    /\ status = "DONE" => Cursor(cmp) = cmp.inplen

C3_Witness ==
  /\ status = "DONE"
  /\ Grown
  /\ cmp.inplen = MaxLen
  /\ Fed(cmp) = cmp.inp

(***************************************************************************)
(* C4: chunkOffsets has one entry per completed chunk.  A step appends at  *)
(* most one entry, and none when it returns MOREOUTPUT or returns CONTINUE *)
(* short of a chunk boundary; at DONE the length is ceil(inplen/CHUNK_SIZE).*)
(***************************************************************************)
C4_CountsChunks ==
  status # "OOM" /\ pc \notin {"constructed", "failed"} =>
    /\ status # "DONE" =>
         Len(cmp.chunkOffsets) * CHUNK_SIZE + cmp.currentChunkSize = Cursor(cmp)
    /\ status = "CONTINUE" => cmp.currentChunkSize < CHUNK_SIZE
    /\ status = "DONE" => Len(cmp.chunkOffsets) = NumChunks(cmp.inplen)

C4_AppendsOne ==
  /\ \/ cmp'.chunkOffsets = cmp.chunkOffsets
     \/ \E o \in 0..OutCap : cmp'.chunkOffsets = Append(cmp.chunkOffsets, o)
  /\ status' = "MOREOUTPUT" /\ pc = "stepping" =>
       cmp'.chunkOffsets = cmp.chunkOffsets
  /\ status' = "CONTINUE" /\ pc = "stepping" /\ Cursor(cmp') % CHUNK_SIZE # 0 =>
       cmp'.chunkOffsets = cmp.chunkOffsets

C4_OneOffsetPerChunk == [](C4_CountsChunks) /\ [][C4_AppendsOne]_vars

C4_Witness ==
  /\ status = "DONE"
  /\ Grown
  /\ NumChunks(cmp.inplen) = 3
  /\ Len(cmp.chunkOffsets) = 3

(***************************************************************************)
(* C5: in a finished container the chunk offsets are strictly increasing   *)
(* and the first one is greater than the size of the header.               *)
(***************************************************************************)
C5_OffsetsIncrease ==
  pc = "finished" =>
    /\ ContainerOffsets[1] > sizeofHeader
    /\ \A i \in 1..(NumChunks(cmp.inplen) - 1) :
         ContainerOffsets[i] < ContainerOffsets[i + 1]

C5_Witness ==
  /\ pc = "finished"
  /\ Grown
  /\ NumChunks(cmp.inplen) = 3
  /\ ContainerOffsets[1] < ContainerOffsets[3]


\* The payload bytes the buffer holds: those after the header that a backend
\* has written (a fresh allocation holds Poison).
PayloadBytes(mem) ==
  Cardinality({k \in sizeofHeader..(Len(mem) - 1) : mem[k + 1] # Poison(k)})

\* Chunk i of the input, i counted from 0.
InputChunk(inp, i) ==
  SubSeq(inp, i * CHUNK_SIZE + 1, Min((i + 1) * CHUNK_SIZE, Len(inp)))

C8_TotalBytesNeeded ==
  /\ pc \in {"done", "finished"} =>
       totalBytesNeeded(cmp)
         = AlignBytes(sizeofHeader + PayloadBytes(out), 4) + 4 * NumChunks(cmp.inplen)
  /\ pc = "finished" =>
       /\ Len(dest) = totalBytesNeeded(cmp)
       /\ Len(dest) = AlignBytes(cmp.outbytes, 4) + 4 * Len(cmp.chunkOffsets)
       /\ TableAt(dest, AlignBytes(cmp.outbytes, 4), Len(cmp.chunkOffsets))
            = cmp.chunkOffsets
       /\ failed \cap {"nonempty", "dest_end"} = {}

C8_Witness ==
  /\ pc = "finished"
  /\ Grown
  /\ cmp.outbytes % 4 # 0
  /\ NumChunks(cmp.inplen) >= 2
  /\ Len(dest) = totalBytesNeeded(cmp)

(***************************************************************************)
(* C9: after finish every byte between the end of the payload and the      *)
(* start of the offset table is zero, although the destination held other  *)
(* values there before, and the payload bytes are the ones the steps wrote.*)
(* compressedBytes is the payload length, outbytes less the header.        *)
(***************************************************************************)
C9_PaddingIsZero ==
  pc = "finished" =>
    /\ \A k \in (sizeofHeader + PayloadBytes(out))
                  ..(AlignBytes(sizeofHeader + PayloadBytes(out), 4) - 1) :
         dest[k + 1] = 0
    /\ \A k \in sizeofHeader..(sizeofHeader + PayloadBytes(out) - 1) :
         dest[k + 1] = out[k + 1]

C9_Witness ==
  /\ pc = "finished"
  /\ Grown
  /\ cmp.outbytes % 4 = 1
  /\ \A k \in cmp.outbytes..(cmp.outbytes + 2) : Poison(k) # 0 /\ dest[k + 1] = 0

(***************************************************************************)
(* C10 (per-chunk round trip): for every chunk i of a finished container,  *)
(* DecompressStringChunk with the size of chunk i returns true and yields  *)
(* chunk i of the input.  The code does not have this property.            *)
(***************************************************************************)
C10_ChunkRoundTrip ==
  pc = "finished" =>
    \A i \in 0..(NumChunks(cmp.inplen) - 1) :
      /\ DecompressStringChunk(dest, i, chunkSize(cmp.inplen, i)).result = "true"
      /\ DecompressStringChunk(dest, i, chunkSize(cmp.inplen, i)).out
           = InputChunk(cmp.inp, i)


(***************************************************************************)
(* C11 (whole-blob round trip): DecompressString applied to a finished     *)
(* container, with the input's length as outlen, returns true and yields   *)
(* the input.  The code does not have this property.                       *)
(***************************************************************************)
C11_WholeRoundTrip ==
  pc = "finished" =>
    /\ DecompressString(dest, Len(dest), cmp.inplen).result = "true"
    /\ DecompressString(dest, Len(dest), cmp.inplen).out = cmp.inp


(***************************************************************************)
(* The decoders, on containers the compressor produced with one large      *)
(* buffer and on containers damaged in storage: a wrong algorithm tag, a   *)
(* wrong offset-table entry, a wrong payload byte, a cut-off container.    *)
(***************************************************************************)

\* Another value for one byte of the container.
BadByte == 255

\* The tags the header's algorithm byte takes when it is damaged.
UnknownTags == {2, 255}

\* The state in which r, a run to DONE, has been finished into f.
DecodeStart(r, f) ==
  /\ cmp = f.c
  /\ out = r.out
  /\ status = r.status
  /\ step = r.loc
  /\ dest = f.dest
  /\ failed = r.loc.asserts \cup f.asserts

DecodeFrom(r) ==
  DecodeStart(r, finish(r.c, Realloc(r.out, r.c.outbytes, totalBytesNeeded(r.c))))

DecodeInit ==
  /\ \E len \in 1..MaxLen, seed \in Seeds, algorithm \in Algorithms, level \in Levels :
       DecodeFrom(LargeRun(init(Compressor(Blob(len, seed), algorithm, level), "ok").c))
  /\ pc = "finished"
  /\ dec = NoDecode
  /\ handle = [alloc |-> "ok", created |-> 1, released |-> 0]

\* The algorithm byte of the header is damaged.
TamperTag ==
  /\ pc = "finished"
  /\ \E tag \in UnknownTags : dest' = WriteAt(dest, 4, <<tag>>)
  /\ pc' = "tampered"
  /\ UNCHANGED <<cmp, out, status, step, failed, dec, handle>>

\* Entry i of the offset table is damaged: it becomes v, between the start of
\* chunk i and the end of the container.
TamperOffset ==
  /\ pc = "finished"
  /\ \E i \in 0..(NumChunks(cmp.inplen) - 1) :
       \E v \in compressedStart(dest, i, ReadU32(dest, 0))..Len(dest) :
         /\ v # compressedEnd(dest, i, ReadU32(dest, 0))
         /\ dest' = WriteAt(dest, AlignBytes(ReadU32(dest, 0), sizeofU32) + i * sizeofU32,
                            U32Bytes(v))
  /\ pc' = "tampered"
  /\ UNCHANGED <<cmp, out, status, step, failed, dec, handle>>

\* One byte of the payload is damaged.
TamperPayload ==
  /\ pc = "finished"
  /\ \E k \in sizeofHeader..(ReadU32(dest, 0) - 1) : dest' = WriteAt(dest, k, <<BadByte>>)
  /\ pc' = "tampered"
  /\ UNCHANGED <<cmp, out, status, step, failed, dec, handle>>

\* The container is cut off inside its header.
Truncate ==
  /\ pc = "finished"
  /\ \E n \in 0..(sizeofHeader - 1) : dest' = SubSeq(dest, 1, n)
  /\ pc' = "truncated"
  /\ UNCHANGED <<cmp, out, status, step, failed, dec, handle>>

\* The state after a decoder call op returned r.
Decoded(op, chunk, outlen, r) ==
  /\ dec' = [op |-> op, chunk |-> chunk, outlen |-> outlen, result |-> r.result,
             out |-> r.out, asserts |-> r.asserts]
  /\ pc' = "decoded"
  /\ UNCHANGED <<cmp, out, status, step, dest, failed, handle>>

\* The caller calls DecompressString with the input's length, or a wrong one,
\* as outlen.
DecodeString ==
  /\ pc \in {"finished", "tampered", "truncated"}
  /\ \E outlen \in {cmp.inplen, cmp.inplen + 1} :
       Decoded("DecompressString", 0, outlen, DecompressString(dest, Len(dest), outlen))

\* start > end: the segment length wraps around and the backend reads past
\* the container, which a debug build stops at the assertion of line 390;
\* what a release build returns is not defined.
ChunkOutcomes(start, end, r) ==
  IF start <= end THEN {r}
  ELSE {[result |-> x, out |-> <<>>, asserts |-> {"start_lt_end"}] :
          x \in {"true", "false", "abort"}}

\* The caller calls DecompressStringChunk with the chunk's size, or a wrong
\* one, as outlen.
DecodeChunk ==
  /\ pc \in {"finished", "tampered"}
  /\ \E chunk \in 0..(NumChunks(cmp.inplen) - 1) :
       \E outlen \in {chunkSize(cmp.inplen, chunk), 1} :
         \E r \in ChunkOutcomes(compressedStart(dest, chunk, ReadU32(dest, 0)),
                                compressedEnd(dest, chunk, ReadU32(dest, 0)),
                                DecompressStringChunk(dest, chunk, outlen)) :
           Decoded("DecompressStringChunk", chunk, outlen, r)

DecodeNext ==
  TamperTag \/ TamperOffset \/ TamperPayload \/ Truncate \/ DecodeString \/ DecodeChunk

DecodeSpec == DecodeInit /\ [][DecodeNext]_vars

(***************************************************************************)
(* C12: for a container whose algorithm byte is neither 0 nor 1, both      *)
(* DecompressString and DecompressStringChunk return false and write       *)
(* nothing to the output buffer.                                           *)
(***************************************************************************)
C12_UnknownTagFails ==
  pc = "decoded" /\ Len(dest) >= sizeofHeader /\ dest[5] \notin {0, 1} =>
    /\ dec.result = "false"
    /\ dec.out = <<>>
    /\ dec.asserts = {}

C12_Witness ==
  /\ pc = "decoded"
  /\ dec.op = "DecompressStringChunk"
  /\ Len(dest) >= sizeofHeader
  /\ dest[5] = 2
  /\ dec.chunk = 1
  /\ dec.result = "false"


\* The offsets DecompressStringChunk read for the chunk it decoded are out of
\* range: the segment is empty or reversed, or it ends past the payload end
\* and the size of the header.
BadBounds ==
  \/ compressedStart(dest, dec.chunk, ReadU32(dest, 0))
       >= compressedEnd(dest, dec.chunk, ReadU32(dest, 0))
  \/ compressedEnd(dest, dec.chunk, ReadU32(dest, 0)) > sizeofHeader + ReadU32(dest, 0)

(***************************************************************************)
(* C13: DecompressString returns false for a container shorter than the    *)
(* header, and DecompressStringChunk returns false, without aborting and   *)
(* without failing an assertion, when the offsets it reads do not satisfy  *)
(* start < end <= end of payload.  The code does not have the second part. *)
(***************************************************************************)
C13_OutOfRangeFails ==
  /\ pc = "decoded" /\ dec.op = "DecompressString" /\ Len(dest) < sizeofHeader =>
       dec.result = "false"
  /\ pc = "decoded" /\ dec.op = "DecompressStringChunk" /\ BadBounds =>
       dec.result = "false" /\ dec.asserts = {}


\* The offsets DecompressStringChunk read for the chunk it decoded satisfy the
\* assertions of lines 390-391.
GoodBounds ==
  /\ compressedStart(dest, dec.chunk, ReadU32(dest, 0))
       < compressedEnd(dest, dec.chunk, ReadU32(dest, 0))
  /\ compressedEnd(dest, dec.chunk, ReadU32(dest, 0)) <= ReadU32(dest, 0)

(***************************************************************************)
(* C14: on a container with a header and offsets in range, a decoder never *)
(* aborts and returns true only if the payload decoded to exactly outlen   *)
(* bytes and the backend reported no error (no assertion on the backend's  *)
(* result fails).  The code does not have this property.                   *)
(***************************************************************************)
C14_CorruptFails ==
  (/\ pc = "decoded"
   /\ Len(dest) >= sizeofHeader
   /\ dec.op = "DecompressStringChunk" => GoodBounds)
  => (/\ dec.result # "abort"
      /\ dec.result = "true" => Len(dec.out) = dec.outlen /\ dec.asserts = {})


\* init() has returned true: the compressor is initialized.  (The destructor
\* leaves initialized as it was.)
InitReturnedTrue == cmp.initialized

SameWork(c, d) ==
  /\ Cursor(d) = Cursor(c)
  /\ d.currentChunkSize = c.currentChunkSize
  /\ d.chunkOffsets = c.chunkOffsets
  /\ d.zs.pending = c.zs.pending
  /\ d.zs.lookahead = c.zs.lookahead
  /\ d.zs.avail_in = c.zs.avail_in
  /\ d.zs.last_flush = c.zs.last_flush
  /\ d.zs.status = c.zs.status
  /\ d.zstdCStream = c.zstdCStream

\* A retry after MOREOUTPUT that used up the new room and returned MOREOUTPUT
\* with the same work left: the caller may grow the buffer by the same amount
\* again, and the run never returns DONE.
RetryInVain ==
  /\ pc = "stepping"
  /\ status = "MOREOUTPUT"
  /\ pc' = "needs_output"
  /\ status' = "MOREOUTPUT"
  /\ cmp'.outbytes = Len(out)
  /\ SameWork(cmp, cmp')

(***************************************************************************)
(* C16 (termination): a caller that steps again after CONTINUE and binds a *)
(* strictly larger buffer after MOREOUTPUT reaches DONE.  For that no      *)
(* retry after MOREOUTPUT may leave the compressor with the same work as   *)
(* before.  The code does not have this property.                          *)
(***************************************************************************)
C16_RetriesAdvance == [][~RetryInVain]_vars


(***************************************************************************)
(* C17: the backend's stream handle is released exactly once.  At most one *)
(* handle is created; none is released that was not created, none twice;   *)
(* once the compressor is destroyed, wherever it was, every handle created *)
(* has been released; a handle created in a failing init is released in    *)
(* init; the destructor's assertions hold.                                 *)
(***************************************************************************)
C17_ReleasedOnce ==
  /\ handle.created <= 1
  /\ handle.released <= handle.created
  /\ pc = "destroyed" => handle.released = handle.created
  /\ pc = "failed" => handle.released = handle.created
  /\ pc = "destroyed" => ~cmp.zs.state /\ ~cmp.zstdCStream.live
  /\ "not_finished" \notin failed

C17_Witness ==
  /\ pc = "destroyed"
  /\ status = "MOREOUTPUT"
  /\ cmp.algorithm_ = "ZSTD"
  /\ handle.created = 1
  /\ handle.released = 1


(***************************************************************************)
(* C18: a step in which the backend reports an allocation failure, or in   *)
(* which chunkOffsets cannot grow, returns OOM; a step that returns OOM    *)
(* records no chunk offset, and outbytes and the input cursor advance in   *)
(* it by exactly what the backend wrote and consumed in it.                *)
(***************************************************************************)

\* The backend's output cursor: zs.next_out for zlib, zstdOutput.pos for zstd.
Written(c) == IF c.algorithm_ = "ZLIB" THEN c.zs.next_out ELSE c.zstdOutput.pos

\* The caller's compressMore() call returns OOM.
OOMStep == pc = "stepping" /\ pc' = "oom" /\ status' = "OOM"

C18_OOMAccounted ==
  /\ (pc = "stepping" /\ pc' # "destroyed" /\ step'.ret \in {"error", "Z_MEM_ERROR"}
        => status' = "OOM")
  /\ OOMStep =>
       /\ cmp'.chunkOffsets = cmp.chunkOffsets
       /\ ~step'.appended
       /\ cmp'.outbytes - cmp.outbytes = Written(cmp') - Written(cmp)
       /\ Cursor(cmp') - Cursor(cmp) = Len(Fed(cmp')) - Len(Fed(cmp))

C18_OOMSurfaced == [][C18_OOMAccounted]_vars


(***************************************************************************)
(* C19: wherever a chunk offset is recorded, currentChunkSize is the       *)
(* uncompressed size of that chunk: CHUNK_SIZE for every chunk but the     *)
(* last, inplen - (N - 1) * CHUNK_SIZE for the last of the N chunks; the   *)
(* assertion chunkSize(inplen, chunkOffsets.length()) == currentChunkSize  *)
(* never fails, in either backend, however the input was consumed.         *)
(***************************************************************************)

\* The uncompressed size of chunk number chunk (from 0) of an input of L bytes.
ExpectedChunkSize(L, chunk) ==
  IF chunk < NumChunks(L) - 1 THEN CHUNK_SIZE
  ELSE L - (NumChunks(L) - 1) * CHUNK_SIZE

\* A step reaches the point where the offset is recorded (lines 194 and 278):
\* it appends the offset, or returns OOM because the append failed.
RecordingStep ==
  /\ pc = "stepping"
  /\ pc' \in {"stepping", "done", "oom"}
  /\ \/ step'.appended
     \/ status' = "OOM" /\ step'.ret \notin {"error", "Z_MEM_ERROR"}

C19_SizeAtRecord ==
  RecordingStep =>
    /\ cmp.currentChunkSize + step'.consumed
         = ExpectedChunkSize(cmp.inplen, Len(cmp.chunkOffsets))
    /\ step'.appended => /\ cmp'.currentChunkSize = 0
                         /\ Len(cmp'.chunkOffsets) = Len(cmp.chunkOffsets) + 1

C19_ChunkSizeHolds ==
  /\ []("chunkSize" \notin failed /\ "chunk_le_after" \notin failed)
  /\ [][C19_SizeAtRecord]_vars

\* An offset is recorded for a chunk of which exactly one byte had been
\* consumed before the recording step: no sequence of full strides of
\* MAX_INPUT_SIZE leaves that, an earlier step stopped on a full buffer having
\* consumed part of its input.
C19_Witness ==
  /\ step.appended
  /\ Grown
  /\ Len(cmp.chunkOffsets) > 1
  /\ ExpectedChunkSize(cmp.inplen, Len(cmp.chunkOffsets) - 1) - step.consumed = 1
  /\ "chunkSize" \notin failed


(***************************************************************************)
(* C20: each recorded offset O[i] is the offset of the first byte past     *)
(* chunk i's complete compressed segment.  At the moment O[i] is appended  *)
(* the bytes below O[i] carry exactly the input of the chunks up to i, the *)
(* backend holds none of their compressed bytes back (the flush marker, or *)
(* for the last chunk the end of the stream, has been written in full),    *)
(* and nothing of chunk i+1 has been taken in or lies below O[i].          *)
(***************************************************************************)

\* The input bytes that the compressed bytes of mem at offsets [from, to) carry.
RECURSIVE CarriedInput(_, _, _)
CarriedInput(mem, from, to) ==
  IF from >= to THEN <<>>
  ELSE (IF IsLiteral(mem[from + 1]) THEN <<Unliteral(mem[from + 1])>> ELSE <<>>)
         \o CarriedInput(mem, from + 1, to)

\* The backend holds back no input it has read and no output it has produced.
NothingHeldBack(c) ==
  IF c.algorithm_ = "ZLIB"
    THEN c.zs.pending = <<>> /\ c.zs.lookahead = 0
    ELSE c.zstdCStream.outBuff = <<>> /\ c.zstdCStream.inBuff = <<>>

\* compressMore() has just appended a chunk offset (lines 197 and 281).
JustAppended ==
  /\ pc \in {"stepping", "done"}
  /\ step.appended
  /\ cmp.chunkOffsets # <<>>

C20_OffsetPastSegment ==
  JustAppended =>
    /\ cmp.chunkOffsets[Len(cmp.chunkOffsets)] = cmp.outbytes
    /\ CarriedInput(out, sizeofHeader, cmp.outbytes)
         = SubSeq(cmp.inp, 1, Min(Len(cmp.chunkOffsets) * CHUNK_SIZE, cmp.inplen))
    /\ Fed(cmp) = SubSeq(cmp.inp, 1, Min(Len(cmp.chunkOffsets) * CHUNK_SIZE, cmp.inplen))
    /\ NothingHeldBack(cmp)


(***************************************************************************)
(* C21: the finalize directive is issued only in steps whose input is all  *)
(* the remaining input, so never while bytes of a later chunk remain;      *)
(* every non-final chunk boundary is reached by a step issuing the         *)
(* full-flush directive, before any byte of the next chunk is fed; when    *)
(* inplen is a multiple of CHUNK_SIZE the last chunk ends with finalize,   *)
(* not with a flush followed by an empty finalize step.                    *)
(***************************************************************************)

\* The directive a step with locals loc issues (lines 178 and 240-262).
Directive(loc) ==
  IF loc.done THEN "finalize" ELSE IF loc.flush THEN "full_flush" ELSE "feed"

\* The caller's compressMore() call reaches the backend.
BackendStep == pc = "stepping" /\ pc' \in {"stepping", "needs_output", "done", "oom"}

C21_Ordered ==
  BackendStep =>
    /\ Directive(step') = "finalize" =>
         /\ step'.offered = cmp.inplen - Cursor(cmp)
         /\ Len(cmp.chunkOffsets) = NumChunks(cmp.inplen) - 1
    /\ Cursor(cmp') = cmp.inplen => Directive(step') = "finalize"
    /\ Len(cmp'.chunkOffsets) < NumChunks(cmp.inplen) =>
         /\ Cursor(cmp') <= (Len(cmp.chunkOffsets) + 1) * CHUNK_SIZE
         /\ Len(Fed(cmp')) <= (Len(cmp.chunkOffsets) + 1) * CHUNK_SIZE
    /\ step'.appended /\ Len(cmp'.chunkOffsets) < NumChunks(cmp.inplen) =>
         /\ Directive(step') = "full_flush"
         /\ Cursor(cmp') = Len(cmp'.chunkOffsets) * CHUNK_SIZE
         /\ Fed(cmp') = SubSeq(cmp.inp, 1, Len(cmp'.chunkOffsets) * CHUNK_SIZE)

C21_DirectivesOrdered == [][C21_Ordered]_vars

C21_Witness ==
  /\ status = "DONE"
  /\ cmp.inplen = 2 * CHUNK_SIZE
  /\ Len(cmp.chunkOffsets) = 2
  /\ step.done
  /\ step.flush
  /\ step.appended
  /\ Grown


(***************************************************************************)
(* C22: every step offers the backend at most min(remaining,               *)
(* MAX_INPUT_SIZE) bytes and at most CHUNK_SIZE - currentChunkSize, so no  *)
(* step consumes bytes across a chunk boundary; currentChunkSize stays in  *)
(* 0..CHUNK_SIZE; the assertions currentChunkSize <= CHUNK_SIZE (before    *)
(* and after the backend call) and avail_in <= left never fail.            *)
(***************************************************************************)
C22_StepBounded ==
  BackendStep =>
    /\ step'.offered >= 0
    /\ step'.offered <= Min(cmp.inplen - Cursor(cmp), MAX_INPUT_SIZE)
    /\ step'.offered <= CHUNK_SIZE - cmp.currentChunkSize
    /\ step'.consumed >= 0
    /\ step'.consumed <= step'.offered
    /\ Len(Fed(cmp')) - Len(Fed(cmp)) <= step'.offered
    /\ Cursor(cmp') \div CHUNK_SIZE = Cursor(cmp) \div CHUNK_SIZE
         \/ Cursor(cmp') = (Cursor(cmp) \div CHUNK_SIZE + 1) * CHUNK_SIZE

C22_StepBounds ==
  /\ [](/\ cmp.currentChunkSize \in 0..CHUNK_SIZE
        /\ failed \cap {"chunk_le", "chunk_le_after", "avail_le_left"} = {})
  /\ [][C22_StepBounded]_vars

\* A step whose input was clamped to what the chunk still takes.
C22_Witness ==
  /\ pc = "stepping"
  /\ status = "CONTINUE"
  /\ step.flush
  /\ step.offered > 0
  /\ step.offered < Min(cmp.inplen - (Cursor(cmp) - step.consumed), MAX_INPUT_SIZE)
  /\ step.consumed = step.offered
  /\ cmp.algorithm_ = "ZSTD"


(***************************************************************************)
(* C23: setOutput changes only the backend's output span: outbytes, the    *)
(* input cursor, currentChunkSize and chunkOffsets stay, and the next byte *)
(* written lands at buffer offset outbytes.  So in every state the         *)
(* backend's write position is the buffer's start plus outbytes: the bytes *)
(* below outbytes are never overwritten and no gap is left among them.     *)
(***************************************************************************)

\* The buffer offset at which the backend writes its next byte.
WritePosition(c) ==
  IF c.algorithm_ = "ZLIB" THEN c.zs.next_out
  ELSE c.zstdOutput.dst + c.zstdOutput.pos

\* The room the backend sees behind its write position.
RoomLeft(c) ==
  IF c.algorithm_ = "ZLIB" THEN c.zs.avail_out
  ELSE c.zstdOutput.size - c.zstdOutput.pos

\* The caller binds a buffer: the BindOutput and Grow actions.
Bound == pc \in {"initialized", "needs_output"} /\ pc' = "stepping"

\* A buffer is bound and the compressor has not been destroyed.
Writing == pc \in {"stepping", "needs_output", "done", "oom", "finished"}

C23_SetOutputFrame ==
  /\ Bound =>
       /\ cmp'.outbytes = cmp.outbytes
       /\ Cursor(cmp') = Cursor(cmp)
       /\ Fed(cmp') = Fed(cmp)
       /\ cmp'.currentChunkSize = cmp.currentChunkSize
       /\ cmp'.chunkOffsets = cmp.chunkOffsets
       /\ WritePosition(cmp') = cmp.outbytes
       /\ RoomLeft(cmp') = Len(out') - cmp.outbytes
       /\ SubSeq(out', sizeofHeader + 1, cmp.outbytes)
            = SubSeq(out, sizeofHeader + 1, cmp.outbytes)
  /\ BackendStep =>
       /\ SubSeq(out', sizeofHeader + 1, cmp.outbytes)
            = SubSeq(out, sizeofHeader + 1, cmp.outbytes)
       /\ Len(out') = Len(out)

C23_WritePositionIsOutbytes ==
  Writing /\ cmp.algorithm_ \in Algorithms =>
    /\ WritePosition(cmp) = cmp.outbytes
    /\ cmp.outbytes \in sizeofHeader..Len(out)
    /\ \A k \in sizeofHeader..(Len(out) - 1) :
         (out[k + 1] # Poison(k)) <=> (k < cmp.outbytes)

C23_ResumesAtOutbytes ==
  /\ [][C23_SetOutputFrame]_vars
  /\ []C23_WritePositionIsOutbytes

\* A buffer bound after MOREOUTPUT, with bytes already produced, and written
\* to since.
C23_Witness ==
  /\ pc = "stepping"
  /\ status = "CONTINUE"
  /\ Grown
  /\ step.written > 0
  /\ cmp.outbytes - step.written > sizeofHeader
  /\ WritePosition(cmp) = cmp.outbytes


(***************************************************************************)
(* C24 as the specification states it: DecompressStringChunk locates the   *)
(* offset table at align4(sizeof(Header) + header.compressedBytes), which  *)
(* is the offset at which finish wrote O[0].  The code does not have this  *)
(* property: the field already counts the header.                          *)
(***************************************************************************)

\* Line 310: the offset at which finish writes the first chunk offset.
outbytesAligned(c) == AlignBytes(c.outbytes, sizeofU32)

\* Lines 380-383: the offset at which DecompressStringChunk reads the table.
compressedBytesAligned(inp) == AlignBytes(ReadU32(inp, 0), sizeofU32)

LeastFinalOutbytes(c) == [inplenHi |-> c.inplenHi, inplen |-> c.inplen + sizeofHeader]

\* The uint32_t a size_t converts to when it is appended to chunkOffsets or
\* stored in the header (lines 197, 281 and 305).
Uint32(v) == ReadU32(U32Bytes(v), 0)

C25_NoTruncation ==
  /\ JustAppended => /\ Uint32(cmp.outbytes) = cmp.outbytes
                     /\ cmp.chunkOffsets[Len(cmp.chunkOffsets)] = cmp.outbytes
  /\ pc = "finished" => ReadU32(dest, 0) = cmp.outbytes
  /\ status = "DONE" /\ step.streamEnd => cmp.outbytes >= sizeofHeader + cmp.inplen
  /\ InitReturnedTrue => LengthBelow(LeastFinalOutbytes(cmp), 65536, 0)


(***************************************************************************)
(* C26: a step that issued the full-flush directive, or the finalize       *)
(* directive, and returned MOREOUTPUT is followed, once the caller has     *)
(* bound a larger buffer, by a step that issues the same directive again,  *)
(* whether the earlier step consumed none, part or all of its input; and a *)
(* step that offers the backend no input is a full-flush or a finalize     *)
(* step, never a plain feed.                                               *)
(***************************************************************************)
C26_Retried ==
  BackendStep =>
    /\ status = "MOREOUTPUT" /\ Directive(step) # "feed" =>
         Directive(step') = Directive(step)
    /\ step'.offered = 0 => Directive(step') # "feed"

C26_DirectiveStable == [][C26_Retried]_vars

\* A full-flush step that was offered nothing and recorded the chunk: the
\* retry of a full-flush step that had consumed all its input and returned
\* MOREOUTPUT.
C26_Witness ==
  /\ pc = "stepping"
  /\ status = "CONTINUE"
  /\ Grown
  /\ Directive(step) = "full_flush"
  /\ step.offered = 0
  /\ step.appended

=============================================================================
